---- MODULE Spec2Model ----
(***************************************************************************)
(* Client-side OAuth 2.0 (authorization code + PKCE) session handling of   *)
(* expo-auth-poc: the token storage service (SecureStore, five keys), the  *)
(* auth service (token exchange, refresh, userinfo, restoreSession,        *)
(* getValidAccessToken) and the AuthProvider context (login, logout,       *)
(* refreshToken, clearError and the startup restore).                      *)
(*                                                                         *)
(* Every async function is one task.  A task suspends at each await of an  *)
(* I/O call (a SecureStore batch, a fetch, the browser prompt); one action *)
(* is the completion of that call together with the JavaScript that runs   *)
(* up to the next await, which issues the next call.  A Promise.all batch  *)
(* of SecureStore calls is issued in one turn and completes in one action; *)
(* each of its calls may fail on its own, the others taking effect.        *)
(***************************************************************************)
EXTENDS Integers, FiniteSets, Sequences, TLC

(* ------------------------------ bounds -------------------------------- *)

\* Calls of login/logout/refreshToken/getValidAccessToken the UI makes.
MaxCalls == 1

\* SecureStore batches in which some call fails.
MaxFaults == 1

\* Advances of the wall clock.
MaxTicks == 1

(* ---------------------------- constants ------------------------------- *)

\* SECURITY_CONFIG.tokenRefreshBuffer, and isTokenExpired's default buffer.
tokenRefreshBuffer == 300

\* One advance of the wall clock, in milliseconds: 3500 seconds.
TickMs == 3500 * 1000

\* An absent optional scalar: SecureStore's null, an undefined field.
Null == 0

\* token_type of every token response.
Bearer == 1

\* A number that is not one: expiresIn of a response without expires_in, the
\* timestamp computed from it, and what parseInt makes of the stored "NaN".
NaN == -1

\* An absent object (null), and an object that is present.
None == {}
Some(x) == {x}
The(s) == CHOOSE x \in s : TRUE

\* An access token: the n-th one the server issued, valid until exp (ms).
AccessTok(n, exp) == [n |-> n, exp |-> exp]
NoAccessToken == AccessTok(0, 0)

\* The profile the userinfo endpoint answers with.
TheUser == [id |-> "sub", email |-> "email"]

Max(a, b) == IF a >= b THEN a ELSE b

(* ------------------------- token storage ------------------------------ *)

STORAGE_KEYS == {"access_token", "refresh_token", "id_token", "expires_at", "token_type"}

EmptyStore ==
  [access_token |-> NoAccessToken, refresh_token |-> Null, id_token |-> Null,
   expires_at |-> Null, token_type |-> Null]

\* A timestamp that would add the seconds to the milliseconds.
ExpiresAtInSeconds(tokens, t) ==
  IF tokens.expiresIn = NaN THEN NaN ELSE t + tokens.expiresIn

\* storeTokens: the absolute expiration timestamp, computed when it is called
\* (NaN when expiresIn is not a number).
ExpiresAt(tokens, t) ==
  IF tokens.expiresIn = NaN THEN NaN ELSE t + tokens.expiresIn * 1000

\* A storeTokens batch that would write all five keys.
WrittenKeysAll(tokens) == STORAGE_KEYS

\* storeTokens: the keys its Promise.all writes; an absent (falsy) refresh or
\* id token is not written.
WrittenKeys(tokens) ==
  {"access_token", "expires_at", "token_type"}
    \cup (IF tokens.refreshToken # Null THEN {"refresh_token"} ELSE {})
    \cup (IF tokens.idToken # Null THEN {"id_token"} ELSE {})

\* storeTokens: the value written under key k.
WrittenValue(tokens, expiresAt, k) ==
  CASE k = "access_token" -> tokens.accessToken
    [] k = "refresh_token" -> tokens.refreshToken
    [] k = "id_token" -> tokens.idToken
    [] k = "expires_at" -> expiresAt
    [] k = "token_type" -> tokens.tokenType

\* A storeTokens that would leave the stored access token in place.
storeTokensKeepingAccessToken(st, tokens, expiresAt, failed) ==
  [k \in STORAGE_KEYS |->
     IF k \in (WrittenKeys(tokens) \ failed) \ {"access_token"}
       THEN WrittenValue(tokens, expiresAt, k)
       ELSE st[k]]

\* storeTokens: the store after its batch, the setItemAsync calls of the keys
\* in `failed` having rejected.
storeTokens(st, tokens, expiresAt, failed) ==
  [k \in STORAGE_KEYS |->
     IF k \in WrittenKeys(tokens) \ failed
       THEN WrittenValue(tokens, expiresAt, k)
       ELSE st[k]]

\* A clearTokens that would leave the refresh token stored.
clearTokensKeepingRefreshToken(st, failed) ==
  [k \in STORAGE_KEYS |->
     IF k \in failed \cup {"refresh_token"} THEN st[k] ELSE EmptyStore[k]]

\* A clearTokens that would leave the expiry stored.
clearTokensKeepingExpiresAt(st, failed) ==
  [k \in STORAGE_KEYS |->
     IF k \in failed \cup {"expires_at"} THEN st[k] ELSE EmptyStore[k]]

\* A clearTokens that would delete only the keys of a complete token set.
clearTokensOnlyWhenComplete(st, failed) ==
  [k \in STORAGE_KEYS |->
     IF k \in failed \/ st.access_token = NoAccessToken \/ st.expires_at = Null
       THEN st[k] ELSE EmptyStore[k]]

\* clearTokens: the store after its batch, the deleteItemAsync calls of the
\* keys in `failed` having rejected.
clearTokens(st, failed) ==
  [k \in STORAGE_KEYS |-> IF k \in failed THEN st[k] ELSE EmptyStore[k]]

\* getTokens: the remaining seconds, Math.max(0, Math.floor(...)), which is
\* NaN when the stored timestamp does not parse.
RemainingSeconds(expiresAt, t) ==
  IF expiresAt = NaN THEN NaN ELSE Max(0, (expiresAt - t) \div 1000)

\* A getTokens that would also ask for a refresh token.
getTokensRequiringRefreshToken(st, t) ==
  IF st.access_token = NoAccessToken \/ st.expires_at = Null \/ st.token_type = Null
       \/ st.refresh_token = Null
    THEN None
    ELSE Some([accessToken |-> st.access_token,
               refreshToken |-> st.refresh_token,
               idToken |-> st.id_token,
               expiresIn |-> RemainingSeconds(st.expires_at, t),
               tokenType |-> st.token_type])

\* getTokens: null when an essential key is missing, else the token set with
\* expiresIn recomputed from expires_at at time t.
getTokens(st, t) ==
  IF st.access_token = NoAccessToken \/ st.expires_at = Null \/ st.token_type = Null
    THEN None
    ELSE Some([accessToken |-> st.access_token,
               refreshToken |-> st.refresh_token,
               idToken |-> st.id_token,
               expiresIn |-> RemainingSeconds(st.expires_at, t),
               tokenType |-> st.token_type])

\* An isTokenExpired that would judge by the stored value it could not read.
isTokenExpiredFailOpen(st, bufferSeconds, t, readOk) ==
  IF st.expires_at = Null THEN TRUE
  ELSE IF st.expires_at = NaN THEN FALSE
  ELSE st.expires_at - t <= bufferSeconds * 1000

\* An isTokenExpired that would compare the other way round.
isTokenExpiredOutsideBuffer(st, bufferSeconds, t, readOk) ==
  IF ~readOk THEN TRUE
  ELSE IF st.expires_at = Null THEN TRUE
  ELSE IF st.expires_at = NaN THEN FALSE
  ELSE st.expires_at - t >= bufferSeconds * 1000

\* An isTokenExpired that would not count the boundary as expired.
isTokenExpiredStrict(st, bufferSeconds, t, readOk) ==
  IF ~readOk THEN TRUE
  ELSE IF st.expires_at = Null THEN TRUE
  ELSE IF st.expires_at = NaN THEN FALSE
  ELSE st.expires_at - t < bufferSeconds * 1000

\* isTokenExpired: readOk is whether the read of expires_at succeeded; a
\* stored value that parses to NaN makes the comparison false.
isTokenExpired(st, bufferSeconds, t, readOk) ==
  IF ~readOk THEN TRUE
  ELSE IF st.expires_at = Null THEN TRUE
  ELSE IF st.expires_at = NaN THEN FALSE
  ELSE st.expires_at - t <= bufferSeconds * 1000

(* --------------------------- SessionState ----------------------------- *)

InitialAuthState ==
  [user |-> None, tokens |-> None, isLoading |-> TRUE,
   isAuthenticated |-> FALSE, error |-> None]

\* A setAuthSuccess that would leave the loading phase on.
setAuthSuccessStillLoading(user, tokens) ==
  [user |-> Some(user), tokens |-> Some(tokens), isLoading |-> TRUE,
   isAuthenticated |-> TRUE, error |-> None]

setAuthSuccess(user, tokens) ==
  [user |-> Some(user), tokens |-> Some(tokens), isLoading |-> FALSE,
   isAuthenticated |-> TRUE, error |-> None]

\* A setAuthLoggedOut that would leave the loading phase on.
setAuthLoggedOutStillLoading ==
  [user |-> None, tokens |-> None, isLoading |-> TRUE,
   isAuthenticated |-> FALSE, error |-> None]

setAuthLoggedOut ==
  [user |-> None, tokens |-> None, isLoading |-> FALSE,
   isAuthenticated |-> FALSE, error |-> None]

\* A setAuthError that would also drop the user.
setAuthErrorDroppingUser(prev, error) ==
  [prev EXCEPT !.isLoading = FALSE, !.error = Some(error), !.user = None]

\* A setAuthError that would leave isLoading as it is.
setAuthErrorLeavingLoading(prev, error) == [prev EXCEPT !.error = Some(error)]

setAuthError(prev, error) ==
  [prev EXCEPT !.isLoading = FALSE, !.error = Some(error)]

\* A clearError that would start a loading phase.
clearErrorStartingLoading(prev) == [prev EXCEPT !.error = None, !.isLoading = TRUE]

\* A clearError that would reset the whole state.
clearErrorResettingState(prev) ==
  [prev EXCEPT !.error = None, !.user = None, !.tokens = None,
               !.isAuthenticated = FALSE]

clearError(prev) == [prev EXCEPT !.error = None]

\* The first update of login and of logout.
setLoading(prev) == [prev EXCEPT !.isLoading = TRUE, !.error = None]

(* ------------------------- token endpoint ----------------------------- *)

\* The token responses considered: a long-lived one with the optional
\* refresh_token and id_token, and a short-lived one without them.
ResponseShapes ==
  {[optional |-> TRUE, expires_in |-> 3600],
   [optional |-> FALSE, expires_in |-> 100]}

\* The JSON bodies of a successful token response for the n-th token issued,
\* at time t.
TokenResponses(n, t) ==
  {[access_token |-> AccessTok(n, t + s.expires_in * 1000),
    refresh_token |-> IF s.optional THEN n ELSE Null,
    id_token |-> IF s.optional THEN n ELSE Null,
    expires_in |-> s.expires_in, token_type |-> Bearer] : s \in ResponseShapes}

\* exchangeCodeForTokens: the response mapped onto AuthTokens.
exchangedTokens(tokenData) ==
  [accessToken |-> tokenData.access_token,
   refreshToken |-> tokenData.refresh_token,
   idToken |-> tokenData.id_token,
   expiresIn |-> tokenData.expires_in,
   tokenType |-> tokenData.token_type]

\* A mapping that would take the refresh token from the response alone.
refreshedTokensDroppingRefreshToken(tokenData, refreshToken) ==
  [accessToken |-> tokenData.access_token,
   refreshToken |-> tokenData.refresh_token,
   idToken |-> tokenData.id_token,
   expiresIn |-> tokenData.expires_in,
   tokenType |-> tokenData.token_type]

\* refreshAccessToken: the response mapped onto AuthTokens, the refresh token
\* sent carried forward when the response has none.
refreshedTokens(tokenData, refreshToken) ==
  [accessToken |-> tokenData.access_token,
   refreshToken |-> IF tokenData.refresh_token # Null
                      THEN tokenData.refresh_token ELSE refreshToken,
   idToken |-> tokenData.id_token,
   expiresIn |-> tokenData.expires_in,
   tokenType |-> tokenData.token_type]

(* ------------------------------ state --------------------------------- *)

VARIABLES
  authState,  \* the AuthProvider's SessionState
  store,      \* SecureStore: the five keys
  now,        \* Date.now(), in milliseconds
  task,       \* per async operation: where it is suspended, and its locals
  calls,      \* calls the UI has made
  faults,     \* SecureStore batches that had a failing call
  ticks,      \* advances of the clock
  issued,     \* access tokens the server has issued
  last        \* the call that completed in the last step, with its result

vars == <<authState, store, now, task, calls, faults, ticks, issued, last>>

Tasks == {"restore", "login", "logout", "refreshToken", "getValidAccessToken"}

\* A task that is not running; pc names the call a running task awaits.
\*   tokens        the token set it holds (tokens / newTokens)
\*   refreshToken  the refresh token of the refresh request it has in flight
\*   expiresAt     the timestamp its storeTokens call computed
\*   caught        the error its catch block holds
\*   trace         the calls it has awaited so far, each with its result
IdleTask ==
  [pc |-> "idle", tokens |-> None, refreshToken |-> Null, expiresAt |-> 0,
   caught |-> "", trace |-> <<>>]

\* A call the task awaited, and how it settled.
Did(call, result) == [call |-> call, result |-> result]

Await(pc) == [IdleTask EXCEPT !.pc = pc]
AwaitWith(pc, tokens) == [IdleTask EXCEPT !.pc = pc, !.tokens = Some(tokens)]

\* refreshAccessToken(refreshToken) called: the request is in flight.
AwaitRefresh(refreshToken) ==
  [IdleTask EXCEPT !.pc = "refreshFetch", !.refreshToken = refreshToken]

\* storeTokens(tokens) called at time t: the batch is in flight.
AwaitStore(tokens, t) ==
  [IdleTask EXCEPT !.pc = "storeTokens", !.tokens = Some(tokens),
                   !.expiresAt = ExpiresAt(tokens, t)]

NoEvent == [op |-> "", ev |-> "", token |-> NoAccessToken, trace |-> <<>>]
Event(op, ev) == [op |-> op, ev |-> ev, token |-> NoAccessToken, trace |-> <<>>]
Returned(op, token) ==
  [op |-> op, ev |-> "returned", token |-> token, trace |-> <<>>]

\* The keys whose SecureStore call is let fail on its own.
FaultKeys == {"access_token", "expires_at"}

\* The outcomes of a SecureStore batch over the keys K, as the set of calls
\* that fail: none, one call on its own, or all of them (the keystore is
\* unavailable).
FailSets(K) ==
  IF faults < MaxFaults
    THEN {{}} \cup {{k} : k \in K \cap FaultKeys} \cup {K}
    ELSE {{}}
ReadOutcomes == IF faults < MaxFaults THEN BOOLEAN ELSE {TRUE}

\* What a previous run of the app can have left stored: nothing, or a token
\* set (with an id token) that is expired with or without a refresh token,
\* or still valid.
InitStores ==
  {EmptyStore} \cup
  {[access_token |-> AccessTok(1, s.expires_in * 1000),
    refresh_token |-> IF s.refresh THEN 1 ELSE Null, id_token |-> 1,
    expires_at |-> s.expires_in * 1000, token_type |-> Bearer] :
      s \in {[refresh |-> TRUE, expires_in |-> 100],
              [refresh |-> FALSE, expires_in |-> 100],
              [refresh |-> TRUE, expires_in |-> 3600]}}

\* The provider has mounted: its effect has called restoreSession, whose
\* getTokens is in flight.
Init ==
  /\ authState = InitialAuthState
  /\ store \in InitStores
  /\ now = 0
  /\ task = [t \in Tasks |-> IF t = "restore" THEN Await("getTokens") ELSE IdleTask]
  /\ calls = 0
  /\ faults = 0
  /\ ticks = 0
  /\ issued = 1
  /\ last = NoEvent

\* Task t moves to `rec` with the given effects.
Step(t, rec, auth, st, fault, iss, ev) ==
  /\ task' = [task EXCEPT ![t] = rec]
  /\ authState' = auth
  /\ store' = st
  /\ faults' = faults + (IF fault THEN 1 ELSE 0)
  /\ issued' = iss
  /\ last' = ev
  /\ UNCHANGED <<now, calls, ticks>>

\* The UI calls operation t.
Call(t, rec, auth) ==
  /\ task[t].pc = "idle"
  /\ calls < MaxCalls
  /\ calls' = calls + 1
  /\ task' = [task EXCEPT ![t] = rec]
  /\ authState' = auth
  /\ last' = NoEvent
  /\ UNCHANGED <<store, now, faults, ticks, issued>>

Tick ==
  /\ ticks < MaxTicks
  /\ ticks' = ticks + 1
  /\ now' = now + TickMs
  /\ last' = NoEvent
  /\ UNCHANGED <<authState, store, task, calls, faults, issued>>

(* ------------------------------ logout -------------------------------- *)

\* AuthProvider.logout after clearTokens settled: the state it sets.
\* A logout that would keep the session and report when clearing fails.
logoutKeepingSessionOnFailure(prev, cleared) ==
  IF cleared THEN setAuthLoggedOut ELSE setAuthError(prev, "Logout failed")

logoutSettled(prev, cleared) == setAuthLoggedOut

StartLogout == Call("logout", Await("clearTokens"), setLoading(authState))

\* The logout task at rest after a logout() whose clearTokens succeeded while
\* no login was in flight, for as long as no login() is started: history that
\* no step of the program reads.
LoggedOut == [IdleTask EXCEPT !.caught = "cleared"]

LogoutClear ==
  /\ task["logout"].pc = "clearTokens"
  /\ \E failed \in FailSets(STORAGE_KEYS) :
       Step("logout",
            IF failed = {} /\ task["login"].pc = "idle" THEN LoggedOut ELSE IdleTask,
            logoutSettled(authState, failed = {}),
            clearTokens(store, failed), failed # {}, issued,
            Event("logout", IF failed = {} THEN "cleared" ELSE "clearFailed"))

(* --------------------------- refreshToken ----------------------------- *)

SessionExpired == "Your session has expired. Please log in again"

\* AuthProvider.refreshToken: whether the token set read has a refresh token
\* (tokens?.refreshToken is truthy).
\* A check that would accept any stored token set.
hasTokens(tokens) == tokens # None

hasRefreshToken(tokens) == tokens # None /\ The(tokens).refreshToken # Null

\* A success update that would also end the loading phase.
refreshTokenSucceededNotLoading(prev, newTokens) ==
  [prev EXCEPT !.tokens = Some(newTokens), !.error = None, !.isLoading = FALSE]

\* AuthProvider.refreshToken, success: only tokens and error are replaced.
refreshTokenSucceeded(prev, newTokens) ==
  [prev EXCEPT !.tokens = Some(newTokens), !.error = None]

\* A catch block that would set the error without logging out.
refreshTokenFailedWithoutLogout(prev, cleared) ==
  setAuthError(prev, SessionExpired)

\* AuthProvider.refreshToken, catch block: logout() has run to its end (its
\* clearTokens settled, `cleared` or not), then the error is set.
refreshTokenFailed(prev, cleared) ==
  setAuthError(logoutSettled(prev, cleared), SessionExpired)

\* The catch block of refreshToken calls logout(): its first update, and its
\* clearTokens in flight.
RtCatch(caught) == [Await("clearTokens") EXCEPT !.caught = caught]

StartRefreshToken == Call("refreshToken", Await("getTokens"), authState)

RtGetTokens ==
  /\ task["refreshToken"].pc = "getTokens"
  /\ \E readOk \in ReadOutcomes :
       LET tokens == getTokens(store, now) IN
       IF ~readOk
         THEN Step("refreshToken", RtCatch("getTokens"), setLoading(authState),
                   store, TRUE, issued, NoEvent)
       ELSE IF ~hasRefreshToken(tokens)
         THEN Step("refreshToken", RtCatch("No refresh token available"),
                   setLoading(authState), store, FALSE, issued,
                   Event("refreshToken", "noRefreshToken"))
       ELSE Step("refreshToken", AwaitRefresh(The(tokens).refreshToken),
                 authState, store, FALSE, issued, NoEvent)

RtRefresh ==
  /\ task["refreshToken"].pc = "refreshFetch"
  /\ \/ Step("refreshToken", RtCatch("REFRESH_FAILED"), setLoading(authState),
             store, FALSE, issued, NoEvent)
     \/ \E tokenData \in TokenResponses(issued + 1, now) :
          Step("refreshToken",
               AwaitStore(refreshedTokens(tokenData, task["refreshToken"].refreshToken), now),
               authState, store, FALSE, issued + 1, NoEvent)

RtStore ==
  /\ task["refreshToken"].pc = "storeTokens"
  /\ LET me == task["refreshToken"]
         newTokens == The(me.tokens) IN
     \E failed \in FailSets(WrittenKeys(newTokens)) :
       IF failed # {}
         THEN Step("refreshToken", RtCatch("REFRESH_FAILED"), setLoading(authState),
                   storeTokens(store, newTokens, me.expiresAt, failed), TRUE,
                   issued, NoEvent)
         ELSE Step("refreshToken", IdleTask,
                   refreshTokenSucceeded(authState, newTokens),
                   storeTokens(store, newTokens, me.expiresAt, failed), FALSE,
                   issued, Event("refreshToken", "refreshed"))

RtLogout ==
  /\ task["refreshToken"].pc = "clearTokens"
  /\ \E failed \in FailSets(STORAGE_KEYS) :
       Step("refreshToken", IdleTask, refreshTokenFailed(authState, failed = {}),
            clearTokens(store, failed), failed # {}, issued,
            Event("refreshToken",
                  IF task["refreshToken"].caught = "No refresh token available"
                    THEN (IF failed = {} THEN "noRefreshToken.cleared"
                                         ELSE "noRefreshToken.clearFailed")
                    ELSE (IF failed = {} THEN "failed.cleared"
                                         ELSE "failed.clearFailed")))

(* ------------------- getValidAccessToken (authService) ---------------- *)

StartGetValidAccessToken ==
  Call("getValidAccessToken", Await("getTokens"), authState)

GvReturn(token, st, fault) ==
  Step("getValidAccessToken", IdleTask, authState, st, fault, issued,
       Returned("getValidAccessToken", token))

GvGetTokens ==
  /\ task["getValidAccessToken"].pc = "getTokens"
  /\ \E readOk \in ReadOutcomes :
       LET tokens == getTokens(store, now) IN
       IF ~readOk THEN GvReturn(NoAccessToken, store, TRUE)
       ELSE IF tokens = None THEN GvReturn(NoAccessToken, store, FALSE)
       ELSE Step("getValidAccessToken", AwaitWith("isTokenExpired", The(tokens)),
                 authState, store, FALSE, issued, NoEvent)

GvIsTokenExpired ==
  /\ task["getValidAccessToken"].pc = "isTokenExpired"
  /\ \E readOk \in ReadOutcomes :
       LET tokens == The(task["getValidAccessToken"].tokens)
           expired == isTokenExpired(store, tokenRefreshBuffer, now, readOk) IN
       IF expired /\ tokens.refreshToken # Null
         THEN Step("getValidAccessToken", AwaitRefresh(tokens.refreshToken),
                   authState, store, ~readOk, issued, NoEvent)
       ELSE IF expired
         THEN GvReturn(NoAccessToken, store, ~readOk)
       ELSE GvReturn(tokens.accessToken, store, FALSE)

GvRefresh ==
  /\ task["getValidAccessToken"].pc = "refreshFetch"
  /\ \/ GvReturn(NoAccessToken, store, FALSE)
     \/ \E tokenData \in TokenResponses(issued + 1, now) :
          Step("getValidAccessToken",
               AwaitStore(refreshedTokens(tokenData,
                                          task["getValidAccessToken"].refreshToken), now),
               authState, store, FALSE, issued + 1, NoEvent)

\* A getValidAccessToken that would put the refreshed tokens into the state.
GvStoreUpdatingState ==
  /\ task["getValidAccessToken"].pc = "storeTokens"
  /\ LET me == task["getValidAccessToken"]
         newTokens == The(me.tokens) IN
     \E failed \in FailSets(WrittenKeys(newTokens)) :
       Step("getValidAccessToken", IdleTask,
            [authState EXCEPT !.tokens = Some(newTokens)],
            storeTokens(store, newTokens, me.expiresAt, failed), failed # {},
            issued,
            Returned("getValidAccessToken",
                     IF failed = {} THEN newTokens.accessToken ELSE NoAccessToken))

GvStore ==
  /\ task["getValidAccessToken"].pc = "storeTokens"
  /\ LET me == task["getValidAccessToken"]
         newTokens == The(me.tokens) IN
     \E failed \in FailSets(WrittenKeys(newTokens)) :
       GvReturn(IF failed = {} THEN newTokens.accessToken ELSE NoAccessToken,
                storeTokens(store, newTokens, me.expiresAt, failed), failed # {})

(* ------------------------------- login -------------------------------- *)

\* What authRequest.promptAsync resolves to: its type, and whether the
\* redirect carried a code.
AuthResults ==
  {[type |-> "cancel", code |-> FALSE], [type |-> "dismiss", code |-> FALSE],
   [type |-> "error", code |-> FALSE], [type |-> "success", code |-> FALSE],
   [type |-> "success", code |-> TRUE]}

\* loginWithWorkOS: the AuthError type thrown for a browser result that does
\* not lead to the token exchange ("" when it does).
promptErrorType(authResult) ==
  IF authResult.type \in {"cancel", "dismiss"} THEN "USER_CANCELLED"
  ELSE IF authResult.type # "success" THEN "INVALID_CREDENTIALS"
  ELSE IF ~authResult.code THEN "INVALID_CREDENTIALS"
  ELSE ""

\* A catch block that would show the same message whatever the type.
loginErrorMessageGeneric(type) == "An unexpected error occurred during login"

\* AuthProvider.login, catch block: the message chosen for an AuthError type;
\* an UNKNOWN_ERROR carries loginWithWorkOS's own message.
loginErrorMessage(type) ==
  CASE type = "USER_CANCELLED" -> "Login was cancelled"
    [] type = "NETWORK_ERROR" -> "Network error. Please check your connection and try again"
    [] type = "INVALID_CREDENTIALS" -> "Authentication failed. Please try again"
    [] OTHER -> "An unexpected error occurred during login"

\* AuthProvider.login, catch block: the state it sets.
loginFailed(prev, type) == setAuthError(prev, loginErrorMessage(type))

\* The UI calls login(); what is remembered of an earlier logout() ends here.
StartLogin ==
  /\ task["login"].pc = "idle"
  /\ calls < MaxCalls
  /\ calls' = calls + 1
  /\ task' = [task EXCEPT !["login"] = Await("promptAsync"),
                          !["logout"] = IF @ = LoggedOut THEN IdleTask ELSE @]
  /\ authState' = setLoading(authState)
  /\ last' = NoEvent
  /\ UNCHANGED <<store, now, faults, ticks, issued>>

\* What the browser result settles promptAsync with, for the record of calls.
promptResult(authResult) ==
  IF authResult.type = "success" /\ ~authResult.code THEN "noCode"
  ELSE authResult.type

\* login goes on to its next await, or ends; `did` is the call that settled in
\* this step.
LoginGo(rec, st, fault, iss, did) ==
  Step("login", [rec EXCEPT !.trace = task["login"].trace \o did],
       authState, st, fault, iss, NoEvent)

LoginEnd(auth, st, fault, ev, did) ==
  Step("login", IdleTask, auth, st, fault, issued,
       [Event("login", ev) EXCEPT !.trace = task["login"].trace \o did])

LoginFail(type, st, fault, did) ==
  LoginEnd(loginFailed(authState, type), st, fault, type, did)

LoginPrompt ==
  /\ task["login"].pc = "promptAsync"
  /\ \E authResult \in AuthResults :
       LET did == <<Did("promptAsync", promptResult(authResult))>> IN
       IF promptErrorType(authResult) # ""
         THEN LoginFail(promptErrorType(authResult), store, FALSE, did)
         ELSE LoginGo(Await("exchangeFetch"), store, FALSE, issued, did)

LoginExchange ==
  /\ task["login"].pc = "exchangeFetch"
  /\ \/ LoginFail("NETWORK_ERROR", store, FALSE,
                  <<Did("exchangeCodeForTokens", "failed")>>)
     \/ \E tokenData \in TokenResponses(issued + 1, now) :
          LoginGo(AwaitStore(exchangedTokens(tokenData), now), store, FALSE,
                  issued + 1, <<Did("exchangeCodeForTokens", "ok")>>)

\* A login that would go on to the profile fetch whether or not the tokens
\* were stored.
LoginStoreIgnoringFailure ==
  /\ task["login"].pc = "storeTokens"
  /\ LET me == task["login"]
         tokens == The(me.tokens) IN
     \E failed \in FailSets(WrittenKeys(tokens)) :
       LoginGo(AwaitWith("fetchUserInfo", tokens),
               storeTokens(store, tokens, me.expiresAt, failed), failed # {},
               issued,
               <<Did("storeTokens", IF failed # {} THEN "threw" ELSE "ok")>>)

LoginStore ==
  /\ task["login"].pc = "storeTokens"
  /\ LET me == task["login"]
         tokens == The(me.tokens) IN
     \E failed \in FailSets(WrittenKeys(tokens)) :
       IF failed # {}
         THEN LoginFail("UNKNOWN_ERROR",
                        storeTokens(store, tokens, me.expiresAt, failed), TRUE,
                        <<Did("storeTokens", "threw")>>)
         ELSE LoginGo(AwaitWith("fetchUserInfo", tokens),
                      storeTokens(store, tokens, me.expiresAt, failed), FALSE,
                      issued, <<Did("storeTokens", "ok")>>)

\* A login that would delete the stored tokens when the profile fetch fails.
LoginUserInfoRollingBack ==
  /\ task["login"].pc = "fetchUserInfo"
  /\ \/ LoginFail("NETWORK_ERROR", EmptyStore, FALSE,
                  <<Did("fetchUserInfo", "failed")>>)
     \/ LoginEnd(setAuthSuccess(TheUser, The(task["login"].tokens)), store,
                 FALSE, "authenticated", <<Did("fetchUserInfo", "ok")>>)

LoginUserInfo ==
  /\ task["login"].pc = "fetchUserInfo"
  /\ \/ LoginFail("NETWORK_ERROR", store, FALSE,
                  <<Did("fetchUserInfo", "failed")>>)
     \/ LoginEnd(setAuthSuccess(TheUser, The(task["login"].tokens)), store,
                 FALSE, "authenticated", <<Did("fetchUserInfo", "ok")>>)

(* --------------------------- startup restore -------------------------- *)

\* attemptSessionRestore: the state set for what restoreSession resolved to
\* (a session, or null; a rejection is caught and treated as null). `did` is
\* the call that settled in this step.
RestoreDone(session, st, fault, did) ==
  Step("restore", IdleTask,
       IF session = None THEN setAuthLoggedOut
                         ELSE setAuthSuccess(TheUser, The(session)),
       st, fault, issued,
       [Event("restore", IF session = None THEN "loggedOut" ELSE "restored")
          EXCEPT !.trace = task["restore"].trace \o did])

RestoreGo(rec, st, fault, iss, did) ==
  Step("restore", [rec EXCEPT !.trace = task["restore"].trace \o did],
       authState, st, fault, iss, NoEvent)

RestoreGetTokens ==
  /\ task["restore"].pc = "getTokens"
  /\ \E readOk \in ReadOutcomes :
       LET tokens == getTokens(store, now) IN
       IF ~readOk
         THEN RestoreGo(Await("clearTokens_outer"), store, TRUE, issued,
                        <<Did("getTokens", "threw")>>)
       ELSE IF tokens = None
         THEN RestoreDone(None, store, FALSE, <<Did("getTokens", "null")>>)
       ELSE RestoreGo(AwaitWith("isTokenExpired", The(tokens)), store, FALSE, issued,
                      <<Did("getTokens", IF The(tokens).refreshToken # Null
                                           THEN "tokens" ELSE "noRefreshToken")>>)

\* A restore that would use an expired token when it has no refresh token.
RestoreUsingExpiredToken ==
  /\ task["restore"].pc = "isTokenExpired"
  /\ \E readOk \in ReadOutcomes :
       LET tokens == The(task["restore"].tokens)
           expired == isTokenExpired(store, tokenRefreshBuffer, now, readOk)
           did == (IF readOk THEN <<>> ELSE <<Did("getItemAsync", "threw")>>)
                    \o <<Did("isTokenExpired", IF expired THEN "expired" ELSE "valid")>> IN
       IF expired /\ tokens.refreshToken # Null
         THEN RestoreGo(AwaitRefresh(tokens.refreshToken), store, ~readOk, issued, did)
       ELSE RestoreGo(AwaitWith("fetchUserInfo", tokens), store, ~readOk, issued, did)

RestoreIsTokenExpired ==
  /\ task["restore"].pc = "isTokenExpired"
  /\ \E readOk \in ReadOutcomes :
       LET tokens == The(task["restore"].tokens)
           expired == isTokenExpired(store, tokenRefreshBuffer, now, readOk)
           did == (IF readOk THEN <<>> ELSE <<Did("getItemAsync", "threw")>>)
                    \o <<Did("isTokenExpired", IF expired THEN "expired" ELSE "valid")>> IN
       IF expired /\ tokens.refreshToken # Null
         THEN RestoreGo(AwaitRefresh(tokens.refreshToken), store, ~readOk, issued, did)
       ELSE IF expired
         THEN RestoreGo(Await("clearTokens_expired"), store, ~readOk, issued, did)
       ELSE RestoreGo(AwaitWith("fetchUserInfo", tokens), store, FALSE, issued, did)

\* refreshAccessToken: its request settles; on success its storeTokens starts.
RestoreRefresh ==
  /\ task["restore"].pc = "refreshFetch"
  /\ \/ RestoreGo(Await("clearTokens_inner"), store, FALSE, issued,
                  <<Did("refreshAccessToken", "failed")>>)
     \/ \E tokenData \in TokenResponses(issued + 1, now) :
          RestoreGo(AwaitStore(refreshedTokens(tokenData, task["restore"].refreshToken), now),
                    store, FALSE, issued + 1, <<>>)

\* refreshAccessToken: its storeTokens settles, and with it the call.
RestoreStore ==
  /\ task["restore"].pc = "storeTokens"
  /\ LET me == task["restore"]
         newTokens == The(me.tokens) IN
     \E failed \in FailSets(WrittenKeys(newTokens)) :
       RestoreGo(IF failed # {} THEN Await("clearTokens_inner")
                                ELSE AwaitWith("fetchUserInfo_new", newTokens),
                 storeTokens(store, newTokens, me.expiresAt, failed), failed # {},
                 issued,
                 <<Did("refreshAccessToken", IF failed # {} THEN "failed" ELSE "ok")>>)

\* fetchUserInfo(newTokens.accessToken), inside the inner try.
RestoreUserInfoNew ==
  /\ task["restore"].pc = "fetchUserInfo_new"
  /\ \/ RestoreGo(Await("clearTokens_inner"), store, FALSE, issued,
                  <<Did("fetchUserInfo", "failed")>>)
     \/ RestoreDone(task["restore"].tokens, store, FALSE,
                    <<Did("fetchUserInfo", "ok")>>)

\* fetchUserInfo(tokens.accessToken), the stored token being still valid.
RestoreUserInfo ==
  /\ task["restore"].pc = "fetchUserInfo"
  /\ \/ RestoreGo(Await("clearTokens_outer"), store, FALSE, issued,
                  <<Did("fetchUserInfo", "failed")>>)
     \/ RestoreDone(task["restore"].tokens, store, FALSE,
                    <<Did("fetchUserInfo", "ok")>>)

\* clearTokens of the inner catch, or of the branch without refresh token: a
\* failure is caught by the outer catch, which calls clearTokens again.
RestoreClear ==
  /\ task["restore"].pc \in {"clearTokens_inner", "clearTokens_expired"}
  /\ \E failed \in FailSets(STORAGE_KEYS) :
       IF failed = {}
         THEN RestoreDone(None, clearTokens(store, failed), FALSE,
                          <<Did("clearTokens", "ok")>>)
         ELSE RestoreGo(Await("clearTokens_outer"), clearTokens(store, failed),
                        TRUE, issued, <<Did("clearTokens", "threw")>>)

\* clearTokens of the outer catch: when it fails restoreSession rejects, and
\* attemptSessionRestore's own catch sets the logged-out state.
RestoreClearOuter ==
  /\ task["restore"].pc = "clearTokens_outer"
  /\ \E failed \in FailSets(STORAGE_KEYS) :
       RestoreDone(None, clearTokens(store, failed), failed # {},
                   <<Did("clearTokens", IF failed = {} THEN "ok" ELSE "threw")>>)

(* ----------------------------- clearError ----------------------------- *)

\* The UI calls clearError(): one state update, run at once.
ClearError ==
  /\ authState' = clearError(authState)
  /\ last' = IF authState.error # None THEN Event("clearError", "cleared")
              ELSE NoEvent
  /\ UNCHANGED <<store, now, task, calls, faults, ticks, issued>>

Next ==
  \/ Tick
  \/ ClearError
  \/ StartLogin \/ LoginPrompt \/ LoginExchange \/ LoginStore \/ LoginUserInfo
  \/ StartLogout \/ LogoutClear
  \/ StartRefreshToken \/ RtGetTokens \/ RtRefresh \/ RtStore \/ RtLogout
  \/ StartGetValidAccessToken \/ GvGetTokens \/ GvIsTokenExpired \/ GvRefresh \/ GvStore
  \/ RestoreGetTokens \/ RestoreIsTokenExpired \/ RestoreRefresh \/ RestoreStore
  \/ RestoreUserInfoNew \/ RestoreUserInfo \/ RestoreClear \/ RestoreClearOuter

Spec == Init /\ [][Next]_vars

(* ------------------------------ claims -------------------------------- *)

LoggedOutData ==
  /\ authState.user = None
  /\ authState.tokens = None
  /\ ~authState.isAuthenticated

\* C1: in every reachable SessionState, isAuthenticated is true exactly when
\* both user and tokens are non-null.
C1_AuthenticatedIffUserAndTokens ==
  authState.isAuthenticated <=> (authState.user # None /\ authState.tokens # None)

\* C1, its case: a refreshToken() that succeeded in a logged-out state has put
\* tokens into the state while user is null, and isAuthenticated is false.
C1_Witness ==
  /\ last = Event("refreshToken", "refreshed")
  /\ authState.tokens # None
  /\ authState.user = None
  /\ ~authState.isAuthenticated

\* C2: every non-null access token getValidAccessToken() returns has, when it
\* is returned, more than tokenRefreshBuffer seconds of validity left.
C2_ReturnedTokenOutsideBuffer ==
  (last.op = "getValidAccessToken" /\ last.ev = "returned"
     /\ last.token # NoAccessToken)
    => last.token.exp - now > tokenRefreshBuffer * 1000

\* C3: at most one refresh request to the token endpoint is in flight at any
\* time.
C3_SingleRefreshInFlight ==
  Cardinality({t \in Tasks : task[t].pc = "refreshFetch"}) <= 1

\* C4: storeTokens is all-or-nothing over the stored keys: when a storeTokens
\* call settles, the store holds either what it held before or all the keys
\* the call writes, never a mix.
C4_StoreTokensAllOrNothing ==
  [][\A t \in Tasks :
       (task[t].pc = "storeTokens" /\ task'[t].pc # "storeTokens")
         => \/ store' = store
            \/ store' = storeTokens(store, The(task[t].tokens), task[t].expiresAt, {})]_vars

\* C5: logout() always ends in the logged-out state (user, tokens and error
\* null, isAuthenticated and isLoading false), whether clearTokens() succeeds
\* or throws.
C5_LogoutEndsLoggedOut ==
  last.op = "logout"
    => /\ LoggedOutData
       /\ ~authState.isLoading
       /\ authState.error = None

\* C5, its case: logout() has ended, its clearTokens() having thrown and left
\* stored keys behind.
C5_Witness ==
  /\ last = Event("logout", "clearFailed")
  /\ store # EmptyStore
  /\ LoggedOutData

\* C6: when the browser hand-off of login() reports cancellation, the state is
\* Idle and error stays null.
C6_CancelLeavesNoError ==
  (last.op = "login" /\ last.ev = "USER_CANCELLED")
    => /\ LoggedOutData
       /\ ~authState.isLoading
       /\ authState.error = None

\* C7: whenever the error field is non-null, user and tokens are null and
\* isAuthenticated is false.
C7_ErrorImpliesLoggedOut ==
  authState.error # None => LoggedOutData

RtFailed == {"failed.cleared", "failed.clearFailed"}
RtNoRefreshToken == {"noRefreshToken.cleared", "noRefreshToken.clearFailed"}

\* C8: when refreshToken() fails, logout() runs to its end and then the error
\* is set: the final state is logged out, not loading, with the session-expired
\* error, and clearTokens() has run (where it succeeded the store is empty).
C8_RefreshFailureLogsOutThenSetsError ==
  (last.op = "refreshToken" /\ last.ev \in RtFailed)
    => /\ LoggedOutData
       /\ ~authState.isLoading
       /\ authState.error = Some("Your session has expired. Please log in again")
       /\ (last.ev = "failed.cleared" => store = EmptyStore)

\* C8, its case: a refreshToken() whose refresh failed has ended, the stored
\* tokens cleared.
C8_Witness ==
  /\ last = Event("refreshToken", "failed.cleared")
  /\ store = EmptyStore
  /\ authState.error # None

\* C9: refreshToken() called when the store holds no refresh token sends no
\* refresh request, triggers logout(), and ends with a non-null error and
\* isAuthenticated false.
C9_NoRefreshTokenNoRequest ==
  /\ task["refreshToken"].pc = "refreshFetch"
       => task["refreshToken"].refreshToken # Null
  /\ last = Event("refreshToken", "noRefreshToken")
       => /\ task["refreshToken"].pc = "clearTokens"
          /\ authState.isLoading
  /\ (last.op = "refreshToken" /\ last.ev \in RtNoRefreshToken)
       => /\ authState.error # None
          /\ ~authState.isAuthenticated

\* C9, its case: a refreshToken() that found no refresh token has ended.
C9_Witness ==
  /\ last.op = "refreshToken"
  /\ last.ev \in RtNoRefreshToken
  /\ authState.error # None
  /\ issued = 1

\* The step in which a refreshToken() succeeds.
RtSucceeds == last' = Event("refreshToken", "refreshed")

\* A step of refreshToken() on its success path before the last one.
RtProceeds ==
  /\ task'["refreshToken"] # task["refreshToken"]
  /\ task'["refreshToken"].pc \in {"getTokens", "refreshFetch", "storeTokens"}

\* What a successful refreshToken() does to SessionState: tokens become the
\* refreshed set, error is cleared, the other fields stay.
RtFrame(newTokens) ==
  /\ authState'.tokens = Some(newTokens)
  /\ authState'.error = None
  /\ authState'.user = authState.user
  /\ authState'.isAuthenticated = authState.isAuthenticated
  /\ authState'.isLoading = authState.isLoading

\* C10 as stated: a successful refreshToken() replaces only the tokens field
\* (error is cleared): the steps before the last leave SessionState alone,
\* the last leaves user, isAuthenticated and isLoading alone, and the store
\* then holds the same refreshed token set.
C10_StoreHoldsRefreshedSet ==
  [][/\ RtProceeds => authState' = authState
     /\ RtSucceeds =>
       LET newTokens == The(task["refreshToken"].tokens) IN
       /\ RtFrame(newTokens)
       /\ store'.access_token = newTokens.accessToken
       /\ store'.refresh_token = newTokens.refreshToken
       /\ store'.id_token = newTokens.idToken
       /\ store'.token_type = newTokens.tokenType]_vars

\* C10 amended: a successful refreshToken() replaces only the tokens field
\* (error is cleared): the steps before the last leave SessionState alone,
\* the last leaves user, isAuthenticated and isLoading alone; the store
\* then holds the refreshed access token, refresh
\* token, token type and expiry, and its id token is the refreshed one when
\* the response carried one and the one stored before otherwise.
C10_StoreHoldsRefreshedSetButStaleIdToken ==
  [][/\ RtProceeds => authState' = authState
     /\ RtSucceeds =>
       LET newTokens == The(task["refreshToken"].tokens) IN
       /\ RtFrame(newTokens)
       /\ store'.access_token = newTokens.accessToken
       /\ store'.refresh_token = newTokens.refreshToken
       /\ store'.token_type = newTokens.tokenType
       /\ store'.expires_at = task["refreshToken"].expiresAt
       /\ store'.id_token = IF newTokens.idToken # Null THEN newTokens.idToken
                                                        ELSE store.id_token]_vars

\* C10, its case: a refreshToken() has succeeded with a response that carried
\* no id token, and the store still holds the previous one.
C10_Witness ==
  /\ last = Event("refreshToken", "refreshed")
  /\ authState.tokens # None
  /\ The(authState.tokens).idToken = Null
  /\ store.id_token # Null
  /\ store.access_token = The(authState.tokens).accessToken

(* ------------------------ startup restore claims ---------------------- *)

\* The startup restore ended in the last step.
RestoreEnded == last.op = "restore"

\* The calls of the given name the ended operation awaited.
Made(call) == {i \in DOMAIN last.trace : last.trace[i].call = call}

\* The ended operation awaited the call, which settled with the result.
Settled(call, result) == \E i \in DOMAIN last.trace : last.trace[i] = Did(call, result)

Authenticated ==
  /\ authState.isAuthenticated
  /\ authState.user # None
  /\ authState.tokens # None
  /\ ~authState.isLoading
  /\ authState.error = None

Idle ==
  /\ LoggedOutData
  /\ ~authState.isLoading
  /\ authState.error = None

\* C11: a startup restore that finds an expired token with a refresh token,
\* and whose refresh and profile fetch succeed, makes exactly one
\* refreshAccessToken call and one fetchUserInfo call and ends Authenticated
\* with an access token issued by the endpoint; when no other operation ran
\* beside it, that is the token the endpoint issued last and the stored one.
C11_RestoreRefreshesOnce ==
  (/\ RestoreEnded
   /\ Settled("getTokens", "tokens")
   /\ Settled("isTokenExpired", "expired")
   /\ ~Settled("refreshAccessToken", "failed")
   /\ ~Settled("fetchUserInfo", "failed"))
    => /\ Cardinality(Made("refreshAccessToken")) = 1
       /\ Cardinality(Made("fetchUserInfo")) = 1
       /\ Authenticated
       /\ The(authState.tokens).accessToken.n > 1
       /\ calls = 0 => /\ The(authState.tokens).accessToken.n = issued
                       /\ store.access_token = The(authState.tokens).accessToken

\* C11, its case: the restore has refreshed an expired token and ended
\* Authenticated, nothing else having run.
C11_Witness ==
  /\ RestoreEnded
  /\ Settled("isTokenExpired", "expired")
  /\ Settled("refreshAccessToken", "ok")
  /\ Authenticated
  /\ calls = 0
  /\ store.access_token = AccessTok(2, 3600 * 1000)

\* The last call the ended operation awaited settled with the result.
SettledLast(call, result) ==
  /\ last.trace # <<>>
  /\ last.trace[Len(last.trace)] = Did(call, result)

\* C12: a startup restore that finds an expired token with a refresh token,
\* and whose refresh fails or whose profile fetch after the refresh fails,
\* ends Idle with error null; its clearTokens having succeeded, the store is
\* empty and getTokens() returns null.
C12_RestoreRefreshFailureClears ==
  (/\ RestoreEnded
   /\ Settled("getTokens", "tokens")
   /\ Settled("isTokenExpired", "expired")
   /\ \/ Settled("refreshAccessToken", "failed")
      \/ Settled("fetchUserInfo", "failed"))
    => /\ Idle
       /\ SettledLast("clearTokens", "ok")
            => /\ store = EmptyStore
               /\ getTokens(store, now) = None

\* C12, its case: the restore has refreshed, failed to fetch the profile,
\* cleared the store and ended Idle.
C12_Witness ==
  /\ RestoreEnded
  /\ Settled("refreshAccessToken", "ok")
  /\ Settled("fetchUserInfo", "failed")
  /\ SettledLast("clearTokens", "ok")
  /\ store = EmptyStore
  /\ Idle

\* C13: a startup restore that finds an expired token without refresh token
\* makes no network call, calls clearTokens and ends Idle with error null;
\* its clearTokens having succeeded, the store is empty.
C13_RestoreExpiredNoRefreshToken ==
  (/\ RestoreEnded
   /\ Settled("getTokens", "noRefreshToken")
   /\ Settled("isTokenExpired", "expired"))
    => /\ Made("refreshAccessToken") = {}
       /\ Made("fetchUserInfo") = {}
       /\ Made("clearTokens") # {}
       /\ Idle
       /\ SettledLast("clearTokens", "ok") => store = EmptyStore

\* C13, its case: the restore has found an expired token without refresh
\* token, cleared the store and ended Idle.
C13_Witness ==
  /\ RestoreEnded
  /\ Settled("getTokens", "noRefreshToken")
  /\ Settled("isTokenExpired", "expired")
  /\ Len(last.trace) = 3
  /\ store = EmptyStore
  /\ Idle

\* C14: a startup restore that finds a token that is not expired makes no
\* refresh call and one fetchUserInfo call; when that succeeds it ends
\* Authenticated with the stored token set (as the store shows when nothing
\* else ran and no time passed), and when it fails it calls clearTokens and
\* ends Idle with error null, the store empty if clearTokens succeeded.
C14_RestoreValidToken ==
  (RestoreEnded /\ Settled("isTokenExpired", "valid"))
    => /\ Made("refreshAccessToken") = {}
       /\ Cardinality(Made("fetchUserInfo")) = 1
       /\ Settled("fetchUserInfo", "ok")
            => /\ Authenticated
               /\ calls = 0 => /\ issued = 1
                               /\ The(authState.tokens).accessToken = store.access_token
               /\ (calls = 0 /\ ticks = 0) => authState.tokens = getTokens(store, now)
       /\ Settled("fetchUserInfo", "failed")
            => /\ Idle
               /\ Made("clearTokens") # {}
               /\ SettledLast("clearTokens", "ok") => store = EmptyStore

\* C14, its case: the restore has found a valid token, fetched the profile
\* and ended Authenticated with the stored token.
C14_Witness ==
  /\ RestoreEnded
  /\ Settled("isTokenExpired", "valid")
  /\ Settled("fetchUserInfo", "ok")
  /\ Authenticated
  /\ calls = 0
  /\ The(authState.tokens).accessToken = store.access_token

\* C15: a startup restore whose getTokens() returns null (an essential key is
\* missing) awaits no other call, so makes no network call, and ends Idle
\* with isLoading false and error null.
C15_RestoreNoTokens ==
  (RestoreEnded /\ Settled("getTokens", "null"))
    => /\ last.trace = <<Did("getTokens", "null")>>
       /\ getTokens(store, now) = None
       /\ Idle

\* C15, its case: the restore has found the store without token set, some
\* other key still being stored, and ended Idle.
C15_Witness ==
  /\ RestoreEnded
  /\ Settled("getTokens", "null")
  /\ store # EmptyStore
  /\ Idle

\* A call the ended operation awaited failed.
Failed == \E i \in DOMAIN last.trace : last.trace[i].result \in {"threw", "failed"}

\* C16 as stated: whenever a storage read, a storage delete or a network call
\* failed during the startup restore, the state after it is logged out with
\* isLoading false and error null.
C16_RestoreFailureLogsOut ==
  (RestoreEnded /\ Failed) => Idle

\* C16 amended: a restore never sets the error field and ends not loading;
\* a failed getTokens, refreshAccessToken, fetchUserInfo or clearTokens ends
\* it logged out; a failed read of expires_at inside isTokenExpired is taken
\* as expired, and the restore goes on from there, so that it can end
\* Authenticated after a successful refresh.
C16_RestoreFailureLogsOutUnlessExpiryUnreadable ==
  RestoreEnded
    => /\ authState.error = None
       /\ ~authState.isLoading
       /\ Settled("getItemAsync", "threw") => Settled("isTokenExpired", "expired")
       /\ (\/ Settled("getTokens", "threw")
           \/ Settled("refreshAccessToken", "failed")
           \/ Settled("fetchUserInfo", "failed")
           \/ Settled("clearTokens", "threw"))
            => Idle
       /\ last.ev = "restored" => Authenticated

\* C16, its case: the read of expires_at failed during the restore, which
\* refreshed and ended Authenticated.
C16_Witness ==
  /\ RestoreEnded
  /\ Settled("getItemAsync", "threw")
  /\ Settled("refreshAccessToken", "ok")
  /\ Authenticated

(* --------------------------- loading claims --------------------------- *)

\* A login(), a logout() (also the one refreshToken() calls from its catch
\* block) or the startup restore is in flight.
LoadingOperationInFlight ==
  \/ task["login"].pc # "idle"
  \/ task["logout"].pc # "idle"
  \/ task["restore"].pc # "idle"
  \/ task["refreshToken"].pc = "clearTokens"

\* C17: at process start isLoading is true with user, tokens and error null
\* and isAuthenticated false; in every reachable state isLoading true implies
\* that a login(), a logout() or the startup restore is in flight, so neither
\* the success path of refreshToken() nor clearError() leaves it true.
C17_LoadingOnlyWhileInFlight ==
  /\ (task["restore"] = Await("getTokens") /\ calls = 0)
       => authState = [user |-> None, tokens |-> None, isLoading |-> TRUE,
                       isAuthenticated |-> FALSE, error |-> None]
  /\ authState.isLoading => LoadingOperationInFlight
  /\ (authState.isLoading /\ task["refreshToken"].pc # "idle"
        /\ task["refreshToken"].pc # "clearTokens")
       => \/ task["login"].pc # "idle"
          \/ task["logout"].pc # "idle"
          \/ task["restore"].pc # "idle"

\* C17, its case: the restore has ended and a login() in flight keeps
\* isLoading true.
C17_Witness ==
  /\ authState.isLoading
  /\ task["restore"].pc = "idle"
  /\ task["login"].pc # "idle"
  /\ task["logout"].pc = "idle"

(* --------------------- the token store on its own --------------------- *)

\* The token sets a caller stores: two access tokens, the refresh and id
\* token present or absent, expiresIn short, long or not a number.
TokenSets ==
  [accessToken : {AccessTok(1, 0), AccessTok(2, 0)},
   refreshToken : {Null, 1, 2},
   idToken : {Null, 1},
   expiresIn : {100, 3600, NaN},
   tokenType : {Bearer}]

\* The buffers isTokenExpired is called with; 300 is its default, and 100 is
\* what a token stored with expiresIn = 100 has left when it is stored.
Buffers == {0, 100, tokenRefreshBuffer}

\* A call of a token store function that settled in the last step: its
\* argument, whether its SecureStore calls all succeeded, what it returned,
\* and the store it found.
StoreCalled(op, arg, ok, result, before) ==
  [op |-> op, ev |-> IF ok THEN "ok" ELSE "threw", arg |-> arg,
   result |-> result, before |-> before]

StoreInit ==
  /\ authState = setAuthLoggedOut
  /\ store = EmptyStore
  /\ now = 0
  /\ task = [t \in Tasks |-> IdleTask]
  /\ calls = 0
  /\ faults = 0
  /\ ticks = 0
  /\ issued = 0
  /\ last = NoEvent

\* A token store function settles: the store and what the call reports.
StoreStep(st, fault, called) ==
  /\ store' = st
  /\ faults' = faults + (IF fault THEN 1 ELSE 0)
  /\ last' = called
  /\ UNCHANGED <<authState, now, task, calls, ticks, issued>>

StStoreTokens ==
  \E tokens \in TokenSets :
    \E failed \in FailSets(WrittenKeys(tokens)) :
      StoreStep(storeTokens(store, tokens, ExpiresAt(tokens, now), failed),
                failed # {},
                StoreCalled("storeTokens", tokens, failed = {}, Null, store))

StGetTokens ==
  \E readOk \in ReadOutcomes :
    StoreStep(store, ~readOk,
              StoreCalled("getTokens", Null, readOk,
                          IF readOk THEN getTokens(store, now) ELSE None, store))

StIsTokenExpired ==
  \E bufferSeconds \in Buffers :
    \E readOk \in ReadOutcomes :
      StoreStep(store, ~readOk,
                StoreCalled("isTokenExpired", bufferSeconds, readOk,
                            isTokenExpired(store, bufferSeconds, now, readOk),
                            store))

StClearTokens ==
  \E failed \in FailSets(STORAGE_KEYS) :
    StoreStep(clearTokens(store, failed), failed # {},
              StoreCalled("clearTokens", Null, failed = {}, Null, store))

\* A getValidAccessToken that would return what is stored, expired or not.
getValidAccessTokenIgnoringExpiry(st, t, expiryReadOk, tokenReadOk) ==
  IF ~tokenReadOk THEN NoAccessToken ELSE st.access_token

\* getValidAccessToken of the token store: null when isTokenExpired() (default
\* buffer) says expired or the read of access_token fails, else what is stored
\* under access_token.
getValidAccessToken(st, t, expiryReadOk, tokenReadOk) ==
  IF isTokenExpired(st, tokenRefreshBuffer, t, expiryReadOk) THEN NoAccessToken
  ELSE IF ~tokenReadOk THEN NoAccessToken
  ELSE st.access_token

StGetValidAccessToken ==
  \E expiryReadOk \in ReadOutcomes :
    \E tokenReadOk \in (IF isTokenExpired(store, tokenRefreshBuffer, now, expiryReadOk)
                          THEN {TRUE} ELSE ReadOutcomes) :
      StoreStep(store, ~expiryReadOk \/ ~tokenReadOk,
                StoreCalled("getValidAccessToken", Null,
                            expiryReadOk /\ tokenReadOk,
                            getValidAccessToken(store, now, expiryReadOk, tokenReadOk),
                            store))

\* What the token endpoint can answer a refresh request at time t: no usable
\* response, or a token response.
RefreshResponses(t) == {None} \cup {Some(d) : d \in TokenResponses(3, t)}

\* A refreshAccessToken that would delete the stored tokens when its request
\* fails.
refreshAccessTokenClearingOnFailure(st, refreshToken, response, t, failed) ==
  IF response = None
    THEN [ok |-> FALSE, tokens |-> None, store |-> EmptyStore]
    ELSE LET tokens == refreshedTokens(The(response), refreshToken) IN
         [ok |-> failed = {},
          tokens |-> IF failed = {} THEN Some(tokens) ELSE None,
          store |-> storeTokens(st, tokens, ExpiresAt(tokens, t), failed)]

\* refreshAccessToken run to its end on store st: whether it returned, the
\* token set it returned, and the store it leaves. failed are the SecureStore
\* writes of its storeTokens that fail.
refreshAccessToken(st, refreshToken, response, t, failed) ==
  IF response = None
    THEN [ok |-> FALSE, tokens |-> None, store |-> st]
    ELSE LET tokens == refreshedTokens(The(response), refreshToken) IN
         [ok |-> failed = {},
          tokens |-> IF failed = {} THEN Some(tokens) ELSE None,
          store |-> storeTokens(st, tokens, ExpiresAt(tokens, t), failed)]

\* The writes of a refreshAccessToken that can fail: those of its storeTokens,
\* which runs only after a token response.
RefreshFailSets(refreshToken, response) ==
  IF response = None THEN {{}}
  ELSE FailSets(WrittenKeys(refreshedTokens(The(response), refreshToken)))

StRefreshAccessToken ==
  \E refreshToken \in {1, 2} :
    \E response \in RefreshResponses(now) :
      \E failed \in RefreshFailSets(refreshToken, response) :
        LET out == refreshAccessToken(store, refreshToken, response, now, failed) IN
        StoreStep(out.store, failed # {},
                  StoreCalled("refreshAccessToken",
                              [refreshToken |-> refreshToken, response |-> response],
                              out.ok, out.tokens, store))

\* A test that would go on to refresh whenever the token is expired.
refreshDueWheneverExpired(st, t, tokensReadOk, expiryReadOk) ==
  /\ tokensReadOk
  /\ getTokens(st, t) # None
  /\ isTokenExpired(st, tokenRefreshBuffer, t, expiryReadOk)

\* getValidAccessToken of the auth service: whether it goes on to refresh,
\* which it does when getTokens returned a token set with a refresh token and
\* isTokenExpired(tokenRefreshBuffer) said expired.
refreshDue(st, t, tokensReadOk, expiryReadOk) ==
  /\ tokensReadOk
  /\ getTokens(st, t) # None
  /\ isTokenExpired(st, tokenRefreshBuffer, t, expiryReadOk)
  /\ The(getTokens(st, t)).refreshToken # Null

\* getValidAccessToken of the auth service run to its end on store st: the
\* token it returns (NoAccessToken for null), the refresh requests it made and
\* the store it leaves. A failed read of getTokens throws into the catch.
authServiceGetValidAccessToken(st, t, tokensReadOk, expiryReadOk, response, failed) ==
  LET tokens == getTokens(st, t)
      null == [token |-> NoAccessToken, requests |-> 0, store |-> st]
  IN IF ~tokensReadOk \/ tokens = None THEN null
     ELSE IF refreshDue(st, t, tokensReadOk, expiryReadOk)
       THEN LET out == refreshAccessToken(st, The(tokens).refreshToken,
                                          response, t, failed) IN
            [token |-> IF out.ok THEN The(out.tokens).accessToken
                       ELSE NoAccessToken,
             requests |-> 1, store |-> out.store]
     ELSE IF isTokenExpired(st, tokenRefreshBuffer, t, expiryReadOk) THEN null
     ELSE [token |-> The(tokens).accessToken, requests |-> 0, store |-> st]

\* The calls a getValidAccessToken of the auth service makes on the store as
\* it is, and how each can turn out: the refresh request and the writes of
\* its storeTokens exist only when it goes on to refresh.
StAuthServiceGetValidAccessToken ==
  \E tokensReadOk \in ReadOutcomes :
    \E expiryReadOk \in (IF tokensReadOk /\ getTokens(store, now) # None
                           THEN ReadOutcomes ELSE {TRUE}) :
      LET due == refreshDue(store, now, tokensReadOk, expiryReadOk)
          refreshToken == IF due THEN The(getTokens(store, now)).refreshToken
                          ELSE Null
      IN
      \E response \in (IF due THEN RefreshResponses(now) ELSE {None}) :
        \E failed \in (IF due THEN RefreshFailSets(refreshToken, response)
                       ELSE {{}}) :
          LET out == authServiceGetValidAccessToken(store, now, tokensReadOk,
                                                    expiryReadOk, response, failed)
              failing == ~tokensReadOk \/ ~expiryReadOk \/ failed # {}
          IN StoreStep(out.store, failing,
                       StoreCalled("authService.getValidAccessToken",
                                   [tokensReadOk |-> tokensReadOk,
                                    expiryReadOk |-> expiryReadOk,
                                    response |-> response, failed |-> failed],
                                   ~failing,
                                   [token |-> out.token, requests |-> out.requests],
                                   store))

StoreNext ==
  \/ Tick
  \/ StStoreTokens
  \/ StGetTokens
  \/ StIsTokenExpired
  \/ StClearTokens
  \/ StGetValidAccessToken
  \/ StRefreshAccessToken
  \/ StAuthServiceGetValidAccessToken

StoreSpec == StoreInit /\ [][StoreNext]_vars

(* ------------------------- token store claims ------------------------- *)

\* storeTokens(t) settled successfully in the last step.
Stored == last.op = "storeTokens" /\ last.ev = "ok"

\* What getTokens() returns right after a storeTokens(t) agrees with t on the
\* access token and the token type, and on expiresIn to the second.
ReadsBackEssentials(tokens, t) ==
  /\ tokens.accessToken = t.accessToken
  /\ tokens.tokenType = t.tokenType
  /\ t.expiresIn # NaN
       => /\ tokens.expiresIn - t.expiresIn <= 1
          /\ t.expiresIn - tokens.expiresIn <= 1

\* C18 as stated: getTokens() right after a successful storeTokens(t), from
\* any prior store, returns t's accessToken, refreshToken, idToken and
\* tokenType (an absent one as absent) and expiresIn within a second.
C18_GetTokensReadsBackStored ==
  Stored
    => /\ getTokens(store, now) # None
       /\ LET tokens == The(getTokens(store, now)) IN
          /\ ReadsBackEssentials(tokens, last.arg)
          /\ tokens.refreshToken = last.arg.refreshToken
          /\ tokens.idToken = last.arg.idToken

\* C18 amended: getTokens() right after a successful storeTokens(t) returns
\* t's accessToken and tokenType and expiresIn within a second; it returns
\* t's refreshToken and idToken where t has them, and otherwise the refresh
\* token and id token that were stored before the call.
C18_GetTokensReadsBackStoredOrStale ==
  Stored
    => /\ getTokens(store, now) # None
       /\ LET tokens == The(getTokens(store, now)) IN
          /\ ReadsBackEssentials(tokens, last.arg)
          /\ tokens.refreshToken =
               IF last.arg.refreshToken # Null THEN last.arg.refreshToken
                                               ELSE last.before.refresh_token
          /\ tokens.idToken =
               IF last.arg.idToken # Null THEN last.arg.idToken
                                          ELSE last.before.id_token

\* C18, its case: a token set without refresh token has been stored over one
\* with a refresh token, and getTokens() returns the earlier refresh token.
C18_Witness ==
  /\ Stored
  /\ last.arg.refreshToken = Null
  /\ last.arg.expiresIn = 3600
  /\ last.before.refresh_token # Null
  /\ The(getTokens(store, now)).refreshToken = last.before.refresh_token
  /\ The(getTokens(store, now)).expiresIn = 3600

\* C19: storeTokens(t) with t.refreshToken or t.idToken absent leaves the
\* stored refresh token / id token as it was, whether the call succeeds or
\* fails; a successful call has overwritten access_token, expires_at and
\* token_type.
C19_AbsentOptionalsLeftInPlace ==
  last.op = "storeTokens"
    => /\ last.arg.refreshToken = Null
            => store.refresh_token = last.before.refresh_token
       /\ last.arg.idToken = Null => store.id_token = last.before.id_token
       /\ last.ev = "ok"
            => /\ store.access_token = last.arg.accessToken
               /\ store.expires_at = ExpiresAt(last.arg, now)
               /\ store.token_type = last.arg.tokenType

\* C19, its case: a token set without refresh and id token has been stored
\* over another one, whose refresh and id token are still stored.
C19_Witness ==
  /\ Stored
  /\ last.arg.refreshToken = Null
  /\ last.arg.idToken = Null
  /\ last.before.access_token \notin {NoAccessToken, last.arg.accessToken}
  /\ store.refresh_token # Null
  /\ store.id_token # Null
  /\ store.access_token = last.arg.accessToken

\* C20: isTokenExpired returns true, for every buffer, whenever the stored
\* expires_at is absent, cannot be read, or is not a valid number.
C20_IsTokenExpiredFailClosed ==
  (/\ last.op = "isTokenExpired"
   /\ \/ last.ev = "threw"
      \/ last.before.expires_at = Null
      \/ last.before.expires_at = NaN)
    => last.result = TRUE

(* ----------------------- claims about clearTokens --------------------- *)

Cleared == last.op = "clearTokens" /\ last.ev = "ok"

\* C21: after a clearTokens() that succeeded, whatever the store held before,
\* the store is empty and on it getTokens() returns null, isTokenExpired(b)
\* returns true for every buffer b, and getValidAccessToken of the token store
\* and of the auth service both return null, whatever their reads do and
\* without a refresh request; and a call of any of them that finds the store
\* as such a clearTokens leaves it answers so.
C21_ClearedStoreReadsAsNothing ==
  /\ Cleared =>
       /\ store = EmptyStore
       /\ getTokens(store, now) = None
       /\ \A readOk \in BOOLEAN :
            /\ \A b \in Buffers : isTokenExpired(store, b, now, readOk)
            /\ \A tokenReadOk \in BOOLEAN :
                 getValidAccessToken(store, now, readOk, tokenReadOk) = NoAccessToken
            /\ \A tokensReadOk \in BOOLEAN :
                 LET out == authServiceGetValidAccessToken(store, now, tokensReadOk,
                                                           readOk, None, {})
                 IN out.token = NoAccessToken /\ out.requests = 0
  /\ (last.op = "getTokens" /\ last.ev = "ok" /\ last.before = EmptyStore)
       => last.result = None
  /\ (last.op = "isTokenExpired" /\ last.before = EmptyStore) => last.result
  /\ (last.op = "getValidAccessToken" /\ last.before = EmptyStore)
       => last.result = NoAccessToken
  /\ (last.op = "authService.getValidAccessToken" /\ last.before = EmptyStore)
       => last.result = [token |-> NoAccessToken, requests |-> 0]

\* A clearTokens() succeeded on a store that held a full token set.
C21_Witness ==
  /\ Cleared
  /\ getTokens(last.before, now) # None
  /\ last.before.refresh_token # Null
  /\ last.before.id_token # Null

\* C22: clearTokens() is idempotent: a clearTokens() whose deletes all succeed
\* leaves the empty store whether all, some or none of the five keys were set,
\* and a second one leaves the store as the first left it.
C22_ClearTokensIdempotent ==
  Cleared =>
    /\ store = EmptyStore
    /\ clearTokens(store, {}) = store
    /\ clearTokens(last.before, {}) = clearTokens(clearTokens(last.before, {}), {})

\* A clearTokens() succeeded on a store in which no key was set.
C22_Witness == Cleared /\ last.before = EmptyStore

(* ---------------------- claims about isTokenExpired ------------------- *)

BufferValues == Buffers \cup {3600}

\* C23: at a fixed store content and clock value isTokenExpired is monotonic
\* in its buffer: when isTokenExpired(b1) is true and b2 > b1 then
\* isTokenExpired(b2) is true.
C23_IsTokenExpiredMonotonicInBuffer ==
  \A readOk \in BOOLEAN :
    \A b1 \in BufferValues :
      \A b2 \in BufferValues :
        (b1 < b2 /\ isTokenExpired(store, b1, now, readOk))
          => isTokenExpired(store, b2, now, readOk)

\* isTokenExpired(300) read the expiry and returned true on a store on which
\* isTokenExpired(0) is false.
C23_Witness ==
  /\ last.op = "isTokenExpired"
  /\ last.ev = "ok"
  /\ last.arg = tokenRefreshBuffer
  /\ last.result
  /\ ~isTokenExpired(store, 0, now, TRUE)


(* -------------------- claims about refreshAccessToken ----------------- *)

RefreshCalled == last.op = "refreshAccessToken"

\* C24: a refreshAccessToken(r) that succeeds returns the token set of the
\* response with the response's refresh_token when it has one and r
\* otherwise, and every field of that token set is in the store under its
\* key, with the expiry computed from its expiresIn, when the call returns;
\* when the request fails or a write of its storeTokens fails the call fails
\* and returns no token set.
C24_RefreshReturnsWhatItStored ==
  RefreshCalled =>
    LET r == last.arg.refreshToken
        response == last.arg.response
        tokens == The(last.result)
    IN
    /\ last.ev = "ok" <=> last.result # None
    /\ last.ev = "ok" =>
         /\ response # None
         /\ tokens.accessToken = The(response).access_token
         /\ tokens.idToken = The(response).id_token
         /\ tokens.expiresIn = The(response).expires_in
         /\ tokens.tokenType = The(response).token_type
         /\ tokens.refreshToken = IF The(response).refresh_token # Null
                                    THEN The(response).refresh_token ELSE r
         /\ store.access_token = tokens.accessToken
         /\ store.refresh_token = tokens.refreshToken
         /\ store.expires_at = now + tokens.expiresIn * 1000
         /\ store.token_type = tokens.tokenType
         /\ tokens.idToken # Null => store.id_token = tokens.idToken
    /\ response = None => (last.ev = "threw" /\ store = last.before)
    /\ (response # None /\ last.ev = "threw") =>
         \E k \in {"access_token", "expires_at", "token_type", "refresh_token"} :
           store[k] = last.before[k]

\* A refreshAccessToken(r) succeeded on a response without a refresh token,
\* over a store that held another refresh token.
C24_Witness ==
  /\ RefreshCalled
  /\ last.ev = "ok"
  /\ The(last.arg.response).refresh_token = Null
  /\ last.before.refresh_token # Null
  /\ last.before.refresh_token # last.arg.refreshToken
  /\ store.refresh_token = last.arg.refreshToken

(* ------------- claims about the auth service's getValidAccessToken ---- *)

GvCalled == last.op = "authService.getValidAccessToken"

\* What a getValidAccessToken found stored, and whether that was expired.
GvFound == getTokens(last.before, now)
GvExpired == isTokenExpired(last.before, tokenRefreshBuffer, now, TRUE)
GvNull == [token |-> NoAccessToken, requests |-> 0]

\* What getValidAccessToken returns on a store it found expired, with a
\* refresh token or without.
GvRefreshes ==
  IF The(GvFound).refreshToken = Null
    THEN last.result = GvNull /\ store = last.before
    ELSE /\ last.result.requests = 1
         /\ last.result.token =
              IF last.arg.response # None /\ last.arg.failed = {}
                THEN The(last.arg.response).access_token ELSE NoAccessToken

\* What getValidAccessToken returns when its storage accesses succeed.
GvAnswers ==
  IF GvFound = None THEN last.result = GvNull /\ store = last.before
  ELSE IF ~GvExpired
    THEN /\ last.result = [token |-> The(GvFound).accessToken, requests |-> 0]
         /\ store = last.before
  ELSE GvRefreshes

\* C25 as stated: getValidAccessToken() of the auth service returns null when
\* no token set is stored, the stored access token with no network call when
\* it is not expired, the new access token after one refresh call when it is
\* expired with a refresh token, null when it is expired without one, and
\* null when the refresh or any storage access fails.
C25_GetValidAccessToken ==
  GvCalled =>
    /\ last.ev = "ok" => GvAnswers
    /\ (last.ev = "threw" \/ (last.result.requests = 1 /\ last.arg.response = None))
         => last.result.token = NoAccessToken

\* C25 amended: as stated, except that a failed read of the expiry inside
\* isTokenExpired counts as expired, so that a stored token set with a refresh
\* token is then refreshed and the new access token returned, also when the
\* stored token was not expired; null is what a failed read of getTokens, a
\* failed refresh request and a failed write of the refreshed tokens give.
C25_GetValidAccessTokenExpiredWhenUnreadable ==
  GvCalled =>
    /\ last.ev = "ok" => GvAnswers
    /\ (~last.arg.tokensReadOk \/ last.arg.failed # {}
          \/ (last.result.requests = 1 /\ last.arg.response = None))
         => last.result.token = NoAccessToken
    /\ (last.arg.tokensReadOk /\ ~last.arg.expiryReadOk)
         => IF GvFound = None THEN last.result = GvNull ELSE GvRefreshes

\* A getValidAccessToken found an expired token set with a refresh token,
\* made one refresh request and returned the new access token.
C25_Witness ==
  /\ GvCalled
  /\ last.ev = "ok"
  /\ GvFound # None
  /\ GvExpired
  /\ last.result.requests = 1
  /\ last.result.token # NoAccessToken
  /\ last.result.token = store.access_token


(* --------------------------- claims about login ----------------------- *)

LoginEnded == last.op = "login"

\* The calls login awaits, in the order of the code.
LoginCalls == <<"promptAsync", "exchangeCodeForTokens", "storeTokens", "fetchUserInfo">>

\* The calls of a record are login's calls in their order, each one made only
\* after the one before it had succeeded.
InLoginOrder(trace) ==
  /\ Len(trace) <= Len(LoginCalls)
  /\ \A i \in DOMAIN trace :
       /\ trace[i].call = LoginCalls[i]
       /\ i < Len(trace) => trace[i].result \in {"success", "ok"}

AllSucceeded(trace) ==
  trace = <<Did("promptAsync", "success"), Did("exchangeCodeForTokens", "ok"),
            Did("storeTokens", "ok"), Did("fetchUserInfo", "ok")>>

\* The token sets the token endpoint can have answered an exchange with that
\* carry the given access token.
ExchangedWith(accessToken) ==
  {exchangedTokens(tokenData) :
     tokenData \in UNION {TokenResponses(accessToken.n, k * TickMs) : k \in 0..ticks}}

\* What holds of login's record of calls in every state: the calls are made
\* in order, storeTokens is awaited after two calls and fetchUserInfo after
\* three, and a login ends in success exactly when all of them succeeded,
\* Authenticated; after a failure it ends with an error set.
LoginInOrder ==
  /\ InLoginOrder(task["login"].trace)
  /\ task["login"].pc = "storeTokens" =>
       /\ Len(task["login"].trace) = 2
       /\ The(task["login"].tokens) \in ExchangedWith(The(task["login"].tokens).accessToken)
  /\ task["login"].pc = "fetchUserInfo" => Len(task["login"].trace) = 3
  /\ LoginEnded =>
       /\ InLoginOrder(last.trace)
       /\ last.ev = "authenticated" <=> AllSucceeded(last.trace)
       /\ last.ev = "authenticated" => Authenticated
       /\ Failed => (last.ev # "authenticated" /\ authState.error # None)

\* What holds of every step: the token set login awaits storeTokens with is
\* the one it awaits fetchUserInfo with, and the one a login that ends in
\* success puts into the state.
LoginKeepsExchangedTokens ==
  task["login"].pc \in {"storeTokens", "fetchUserInfo"} =>
    /\ task'["login"].pc = "fetchUserInfo" => task'["login"].tokens = task["login"].tokens
    /\ (last'.op = "login" /\ last'.ev = "authenticated")
         => authState'.tokens = task["login"].tokens

\* C26: in login() the token exchange has completed when storeTokens starts
\* and storeTokens has completed when fetchUserInfo starts; a login makes the
\* state Authenticated only when all three succeeded, with the tokens of the
\* exchange; a login in which one of them failed does not end in success but
\* with an error set.
C26_LoginStoresBeforeProfileFetch ==
  []LoginInOrder /\ [][LoginKeepsExchangedTokens]_vars

\* A login ended Authenticated after its three calls.
C26_Witness ==
  /\ LoginEnded
  /\ last.ev = "authenticated"
  /\ Len(last.trace) = 4
  /\ authState.isAuthenticated

\* C27: a login() whose browser result is neither a cancellation nor a
\* success, or a success without a code, ends with the 'Authentication
\* failed' message; one whose token exchange or profile fetch failed with the
\* 'check your connection' message; one whose storeTokens failed with the
\* unexpected-error message; each with isLoading false and a non-null error.
C27_LoginFailureMessages ==
  LoginEnded =>
    /\ (Settled("promptAsync", "error") \/ Settled("promptAsync", "noCode"))
         => authState.error = Some("Authentication failed. Please try again")
    /\ (Settled("exchangeCodeForTokens", "failed") \/ Settled("fetchUserInfo", "failed"))
         => authState.error =
              Some("Network error. Please check your connection and try again")
    /\ Settled("storeTokens", "threw")
         => authState.error = Some("An unexpected error occurred during login")
    /\ last.ev # "authenticated"
         => (~authState.isLoading /\ authState.error # None)

\* A login ended on a failed storeTokens, after the exchange had succeeded.
C27_Witness ==
  /\ LoginEnded
  /\ Settled("exchangeCodeForTokens", "ok")
  /\ Settled("storeTokens", "threw")
  /\ authState.error # None


(* ----------------- network calls that are never answered ------------- *)

\* The steps in which a SecureStore batch settles: local calls, which always
\* settle.
StorageSteps ==
  \/ LoginStore \/ LogoutClear
  \/ RtGetTokens \/ RtStore \/ RtLogout
  \/ GvGetTokens \/ GvIsTokenExpired \/ GvStore
  \/ RestoreGetTokens \/ RestoreIsTokenExpired \/ RestoreStore
  \/ RestoreClear \/ RestoreClearOuter

\* The program with time passing and every SecureStore call settling, and with
\* nothing said of when, or whether, a fetch is answered: the fetch calls are
\* made without a signal or a timer, and apiTimeout is not read anywhere.
UnansweredSpec == Init /\ [][Next]_vars /\ WF_vars(Tick) /\ WF_vars(StorageSteps)

\* The awaits of a fetch: the token exchange, the refresh, the profile fetch.
NetworkPcs == {"exchangeFetch", "refreshFetch", "fetchUserInfo", "fetchUserInfo_new"}

\* C28: a network call that receives no response does not block forever: it
\* comes to an end, and a login() or startup restore waiting on it eventually
\* finds isLoading false.
C28_UnansweredCallComesToAnEnd ==
  /\ \A t \in Tasks : (task[t].pc \in NetworkPcs) ~> (task[t].pc \notin NetworkPcs)
  /\ \A t \in {"login", "restore"} : (task[t].pc \in NetworkPcs) ~> ~authState.isLoading


(* ------------------- claims about concurrent operations --------------- *)

\* C29: once a logout() has completed with clearTokens() succeeding, the store
\* stays empty and isAuthenticated stays false until a login() is started,
\* also when a refresh was in flight when logout ran and completes afterwards.
C29_LoggedOutStaysLoggedOut ==
  task["logout"] = LoggedOut
    => (store = EmptyStore /\ ~authState.isAuthenticated)

\* C30: whenever no operation is in flight and isAuthenticated is true, the
\* store holds an access token, an expiry and a token type, so that
\* getTokens() is non-null.
C30_AuthenticatedAtRestHasStoredTokens ==
  ((\A t \in Tasks : task[t].pc = "idle") /\ authState.isAuthenticated)
    => getTokens(store, now) # None


(* ------------------ claims about a login that fails late -------------- *)

\* login's storeTokens settles with success.
LoginStored ==
  task["login"].pc = "storeTokens" /\ task'["login"].pc = "fetchUserInfo"

\* login's fetchUserInfo settles with a failure.
LoginFailsAtUserInfo ==
  task["login"].pc = "fetchUserInfo" /\ last'.op = "login" /\ last'.ev # "authenticated"

\* C31: when login() fails at fetchUserInfo after storeTokens succeeded, the
\* exchanged tokens are not rolled back: storeTokens left them in the store,
\* where getTokens() finds them, and the failure leaves the store as it is,
\* sets the error and ends the loading, and leaves user, tokens and
\* isAuthenticated as they were.
C31_NoRollbackAfterProfileFetchFailure ==
  [][/\ LoginStored =>
          LET tokens == The(task["login"].tokens) IN
          /\ getTokens(store', now) # None
          /\ store'.access_token = tokens.accessToken
          /\ tokens.refreshToken # Null => store'.refresh_token = tokens.refreshToken
     /\ LoginFailsAtUserInfo =>
          /\ store' = store
          /\ authState'.error # None
          /\ ~authState'.isLoading
          /\ authState'.user = authState.user
          /\ authState'.tokens = authState.tokens
          /\ authState'.isAuthenticated = authState.isAuthenticated]_vars

\* A login failed at fetchUserInfo and every operation has ended: the state is
\* unauthenticated with an error, and the store holds the exchanged tokens,
\* with their refresh token, for a later restore or refreshToken() to read.
C31_Witness ==
  /\ LoginEnded
  /\ Settled("storeTokens", "ok")
  /\ Settled("fetchUserInfo", "failed")
  /\ \A t \in Tasks : task[t].pc = "idle"
  /\ ~authState.isAuthenticated
  /\ authState.error # None
  /\ getTokens(store, now) # None
  /\ store.access_token.n = issued
  /\ store.refresh_token # Null


(* ------------------ claims about the numbers of the expiry ------------ *)

IsTokenExpiredCalled == last.op = "isTokenExpired" /\ last.ev = "ok"

\* C32: storeTokens stores expiresAt = clock + expiresIn * 1000, and
\* isTokenExpired(b) on a stored numeric expiresAt returns true exactly when
\* expiresAt - now <= b * 1000, the boundary included; a token stored with
\* expiresIn = 3600 is not expired at buffer 300 when it is stored and is
\* expired at buffer 300 once 3500 s have passed.
C32_ExpiredExactlyWithinBuffer ==
  /\ (Stored /\ last.arg.expiresIn # NaN) =>
       store.expires_at = now + last.arg.expiresIn * 1000
  /\ (Stored /\ last.arg.expiresIn = 3600) =>
       /\ ~isTokenExpired(store, tokenRefreshBuffer, now, TRUE)
       /\ ~isTokenExpired(store, tokenRefreshBuffer, now + 3299 * 1000, TRUE)
       /\ isTokenExpired(store, tokenRefreshBuffer, now + 3300 * 1000, TRUE)
       /\ isTokenExpired(store, tokenRefreshBuffer, now + 3500 * 1000, TRUE)
  /\ (IsTokenExpiredCalled /\ last.before.expires_at \notin {Null, NaN}) =>
       (last.result <=> last.before.expires_at - now <= last.arg * 1000)

\* isTokenExpired(100) returned true on a token that has exactly 100 s left.
C32_Witness ==
  /\ IsTokenExpiredCalled
  /\ last.arg = 100
  /\ last.before.expires_at - now = 100 * 1000
  /\ last.result


(* ------------------------ claims about getTokens ---------------------- *)

GetTokensCalled == last.op = "getTokens" /\ last.ev = "ok"

\* C33: getTokens() returns null exactly when the stored access token,
\* expiresAt or token type is missing, a missing refresh or id token alone
\* never making it null; otherwise it returns what is stored, with expiresIn
\* equal to max(0, floor((expiresAt - now) / 1000)), which is never negative
\* (and is NaN, as that expression is, for a stored expiry that is no number).
C33_GetTokensNullExactlyWhenEssentialMissing ==
  GetTokensCalled =>
    LET found == last.before IN
    /\ last.result = None <=>
         \/ found.access_token = NoAccessToken
         \/ found.expires_at = Null
         \/ found.token_type = Null
    /\ last.result # None =>
         LET tokens == The(last.result) IN
         /\ tokens.accessToken = found.access_token
         /\ tokens.refreshToken = found.refresh_token
         /\ tokens.idToken = found.id_token
         /\ tokens.tokenType = found.token_type
         /\ IF found.expires_at = NaN THEN tokens.expiresIn = NaN
            ELSE /\ tokens.expiresIn >= 0
                 /\ IF found.expires_at <= now THEN tokens.expiresIn = 0
                    ELSE /\ tokens.expiresIn * 1000 <= found.expires_at - now
                         /\ found.expires_at - now < (tokens.expiresIn + 1) * 1000
    /\ store = found

\* getTokens() returned a token set with neither refresh nor id token whose
\* expiry lies in the past, with expiresIn 0.
C33_Witness ==
  /\ GetTokensCalled
  /\ last.result # None
  /\ last.before.refresh_token = Null
  /\ last.before.id_token = Null
  /\ last.before.expires_at < now
  /\ The(last.result).expiresIn = 0

(* ------------- claims about the token store's getValidAccessToken ----- *)

StoreGvCalled == last.op = "getValidAccessToken"

\* C34: the token store's getValidAccessToken() returns the stored access
\* token only if isTokenExpired(300) is false, and null otherwise and when a
\* read fails; it leaves every stored key as it is and makes no request.
C34_StoreGetValidAccessTokenOnlyReads ==
  StoreGvCalled =>
    LET expired == isTokenExpired(last.before, tokenRefreshBuffer, now, TRUE) IN
    /\ last.ev = "ok" =>
         last.result = IF expired THEN NoAccessToken ELSE last.before.access_token
    /\ last.ev = "threw" => last.result = NoAccessToken
    /\ last.result # NoAccessToken => ~expired
    /\ store = last.before
    /\ issued = 0

\* The token store's getValidAccessToken() returned a stored access token.
C34_Witness ==
  /\ StoreGvCalled
  /\ last.result # NoAccessToken
  /\ last.result = store.access_token

(* --------------- claims about a refresh request that fails ------------ *)

\* C36: when the request of refreshAccessToken fails, the call writes and
\* deletes no key, so that the store is what it was before, and the call
\* fails, returning no token set.
C36_FailedRefreshRequestLeavesStore ==
  (RefreshCalled /\ last.arg.response = None) =>
    /\ store = last.before
    /\ last.ev = "threw"
    /\ last.result = None

\* A refreshAccessToken whose request failed, on a store that held a token set
\* with a refresh token.
C36_Witness ==
  /\ RefreshCalled
  /\ last.arg.response = None
  /\ getTokens(store, now) # None
  /\ store.refresh_token # Null


(* ------------------------- PKCE in loginWithWorkOS -------------------- *)

\* The login attempts, which may overlap: loginWithWorkOS keeps the verifier
\* and the challenge in local constants of the call.
Attempts == {1, 2}

\* What Crypto.getRandomBytes can give generateCodeVerifier: random, so two
\* attempts can draw the same.
Verifiers == {101, 102}

\* generateCodeChallenge: the SHA-256 digest of the verifier, base64url
\* encoded: a function of the verifier, different for different verifiers.
generateCodeChallenge(verifier) == verifier + 100

\* An attempt: where it is, its two constants, the code_challenge its
\* authorization request carried and the code_verifier its token exchange
\* carried (Null while not sent), and the tokens the exchange returned.
NoAttempt ==
  [pc |-> "idle", codeVerifier |-> Null, codeChallenge |-> Null,
   authorization |-> Null, exchange |-> Null, tokens |-> None]

PkceInit ==
  /\ authState = setAuthLoggedOut
  /\ store = EmptyStore
  /\ now = 0
  /\ task = [a \in Attempts |-> NoAttempt]
  /\ calls = 0
  /\ faults = 0
  /\ ticks = 0
  /\ issued = 0
  /\ last = NoEvent

\* Attempt a goes on; the store and the tokens issued so far.
PkceStep(a, rec, st, fault, iss) ==
  /\ task' = [task EXCEPT ![a] = rec]
  /\ store' = st
  /\ faults' = faults + (IF fault THEN 1 ELSE 0)
  /\ issued' = iss
  /\ UNCHANGED <<authState, now, calls, ticks, last>>

\* loginWithWorkOS is called (two overlapping attempts and a third one need
\* two more calls than MaxCalls): the verifier is generated and the digest
\* awaited.
PkceStart(a) ==
  /\ task[a].pc \in {"idle", "ended"}
  /\ calls < MaxCalls + 2
  /\ calls' = calls + 1
  /\ \E verifier \in Verifiers :
       task' = [task EXCEPT
                  ![a] = [NoAttempt EXCEPT !.pc = "digestStringAsync",
                                           !.codeVerifier = verifier]]
  /\ UNCHANGED <<authState, store, now, faults, ticks, issued, last>>

\* The digest settles: the authorization request is built with the challenge
\* and the browser opened; a rejected digest ends the attempt.
PkceChallenge(a) ==
  /\ task[a].pc = "digestStringAsync"
  /\ \/ PkceStep(a, [task[a] EXCEPT !.pc = "ended"], store, FALSE, issued)
     \/ LET codeChallenge == generateCodeChallenge(task[a].codeVerifier) IN
        PkceStep(a, [task[a] EXCEPT !.pc = "promptAsync",
                                    !.codeChallenge = codeChallenge,
                                    !.authorization = codeChallenge],
                 store, FALSE, issued)

\* An attempt that would send the verifier generated last, by whichever
\* attempt, as a verifier kept outside the call would be.
PkcePromptSharedVerifier(a) ==
  /\ task[a].pc = "promptAsync"
  /\ \E authResult \in AuthResults :
       IF promptErrorType(authResult) # ""
         THEN PkceStep(a, [task[a] EXCEPT !.pc = "ended"], store, FALSE, issued)
         ELSE \E b \in Attempts :
                /\ task[b].codeVerifier # Null
                /\ PkceStep(a, [task[a] EXCEPT !.pc = "exchangeFetch",
                                               !.exchange = task[b].codeVerifier],
                            store, FALSE, issued)

\* The browser hand-off settles: with a code the token exchange is sent with
\* the verifier of the call.
PkcePrompt(a) ==
  /\ task[a].pc = "promptAsync"
  /\ \E authResult \in AuthResults :
       IF promptErrorType(authResult) # ""
         THEN PkceStep(a, [task[a] EXCEPT !.pc = "ended"], store, FALSE, issued)
         ELSE PkceStep(a, [task[a] EXCEPT !.pc = "exchangeFetch",
                                          !.exchange = task[a].codeVerifier],
                       store, FALSE, issued)

\* The token exchange settles; the token endpoint answers with tokens only
\* when the verifier it received matches the challenge of the authorization
\* request.
PkceExchange(a) ==
  /\ task[a].pc = "exchangeFetch"
  /\ \/ PkceStep(a, [task[a] EXCEPT !.pc = "ended"], store, FALSE, issued)
     \/ /\ generateCodeChallenge(task[a].exchange) = task[a].authorization
        /\ \E tokenData \in TokenResponses(issued + 1, now) :
             PkceStep(a, [task[a] EXCEPT !.pc = "storeTokens",
                                         !.tokens = Some(exchangedTokens(tokenData))],
                      store, FALSE, issued + 1)

\* storeTokens(tokens) settles, and the attempt ends.
PkceStore(a) ==
  /\ task[a].pc = "storeTokens"
  /\ LET tokens == The(task[a].tokens) IN
     \E failed \in FailSets(WrittenKeys(tokens)) :
       PkceStep(a, [task[a] EXCEPT !.pc = "ended"],
                storeTokens(store, tokens, ExpiresAt(tokens, now), failed),
                failed # {}, issued)

PkceNext ==
  \E a \in Attempts :
    \/ PkceStart(a)
    \/ PkceChallenge(a)
    \/ PkcePrompt(a)
    \/ PkceExchange(a)
    \/ PkceStore(a)

PkceSpec == PkceInit /\ [][PkceNext]_vars

\* The values of verifiers and challenges.
PkceValues == Verifiers \cup {generateCodeChallenge(v) : v \in Verifiers}

\* C35: each login attempt has its own verifier; the code_challenge of its
\* authorization request is the challenge of that verifier and the
\* code_verifier of its token exchange is that verifier, also while another
\* attempt is in flight; no key of the store ever holds a verifier or a
\* challenge.
C35_VerifierOfTheSameAttempt ==
  /\ \A a \in Attempts :
       /\ task[a].pc # "idle" => task[a].codeVerifier \in Verifiers
       /\ task[a].authorization # Null =>
            task[a].authorization = generateCodeChallenge(task[a].codeVerifier)
       /\ task[a].exchange # Null =>
            /\ task[a].exchange = task[a].codeVerifier
            /\ generateCodeChallenge(task[a].exchange) = task[a].authorization
  /\ store.access_token.n \notin PkceValues
  /\ store.access_token.exp \notin PkceValues
  /\ \A k \in STORAGE_KEYS \ {"access_token"} : store[k] \notin PkceValues

\* Two attempts with different verifiers have both sent their token exchange,
\* while tokens of an earlier attempt are stored.
C35_Witness ==
  /\ task[1].pc = "exchangeFetch"
  /\ task[2].pc = "exchangeFetch"
  /\ task[1].codeVerifier # task[2].codeVerifier
  /\ store # EmptyStore


(* ------- claims about the state and the auth service's refresh -------- *)

\* A step of getValidAccessToken: its call, or one of its awaits settling.
GvStep == task'["getValidAccessToken"] # task["getValidAccessToken"]

\* C37: getValidAccessToken() of the auth service, its refresh included,
\* leaves user, tokens, isLoading, isAuthenticated and error as they are, and
\* changes the store only where its refresh stores the new tokens.
C37_GetValidAccessTokenLeavesState ==
  [][GvStep =>
       /\ authState' = authState
       /\ task["getValidAccessToken"].pc # "storeTokens" => store' = store]_vars

\* getValidAccessToken() returned a refreshed access token, which is stored,
\* while the state is authenticated with the access token of before.
C37_Witness ==
  /\ last.op = "getValidAccessToken"
  /\ last.ev = "returned"
  /\ last.token # NoAccessToken
  /\ last.token = store.access_token
  /\ authState.isAuthenticated
  /\ authState.tokens # None
  /\ The(authState.tokens).accessToken # store.access_token


(* ------------------------ claims about clearError --------------------- *)

\* C39: clearError() sets error to null and leaves user, tokens, isLoading and
\* isAuthenticated as they are in the state it runs on, whatever operation is
\* in flight; it touches neither the store nor any operation in flight and
\* makes no request.
C39_ClearErrorOnlyClearsError ==
  [][last'.op = "clearError" =>
       /\ authState'.error = None
       /\ authState'.user = authState.user
       /\ authState'.tokens = authState.tokens
       /\ authState'.isLoading = authState.isLoading
       /\ authState'.isAuthenticated = authState.isAuthenticated
       /\ store' = store
       /\ task' = task
       /\ issued' = issued /\ faults' = faults /\ calls' = calls]_vars

\* clearError() has cleared an error while an operation was in flight.
C39_Witness ==
  /\ last.op = "clearError"
  /\ authState.error = None
  /\ \E t \in Tasks : task[t].pc # "idle"


(* --------------------- every call completes: liveness ----------------- *)

\* The steps in which a fetch or the browser hand-off settles.
NetworkSteps ==
  \/ LoginPrompt \/ LoginExchange \/ LoginUserInfo
  \/ RtRefresh \/ GvRefresh
  \/ RestoreRefresh \/ RestoreUserInfoNew \/ RestoreUserInfo

\* The program when every storage call, network call and browser hand-off
\* that is awaited eventually settles, with success or failure. Nothing is
\* said of whether the UI calls an operation or time passes.
LiveSpec ==
  Init /\ [][Next]_vars /\ WF_vars(StorageSteps) /\ WF_vars(NetworkSteps)

\* C38: when every awaited call eventually settles, the startup restore
\* eventually ends in a state with isLoading false, every login() and every
\* logout() is eventually followed by its end in a state with isLoading
\* false, and isLoading is false again and again, whatever the operations.
C38_LoadingEnds ==
  /\ <>(last.op = "restore" /\ ~authState.isLoading)
  /\ (task["login"].pc # "idle") ~> (last.op = "login" /\ ~authState.isLoading)
  /\ (task["logout"].pc # "idle") ~> (last.op = "logout" /\ ~authState.isLoading)
  /\ []<>(~authState.isLoading)
  /\ <>[]((\A t \in Tasks : task[t].pc = "idle") => ~authState.isLoading)

\* A login() has ended, after the startup restore, with isLoading false and
\* nothing in flight.
C38_Witness ==
  /\ last.op = "login"
  /\ ~authState.isLoading
  /\ calls = 1
  /\ \A t \in Tasks : task[t].pc = "idle"

====
